---- MODULE Spec2Model ----
(***************************************************************************)
(* Model of jersi_drawer_tk/jersi_gui.py: the board registry, the piece    *)
(* table, the board state State with its two-slot stacks, the notation     *)
(* reader read_state_file, the renderer draw_state and the GUI handlers    *)
(* (read, write, toggle) that drive them.                                  *)
(*                                                                         *)
(* Conventions.  Python's None is the empty tuple.  A Python string that   *)
(* the program inspects character by character (a line of the file, an     *)
(* item of a line) is a sequence of one-character strings; join turns it   *)
(* into one string when it is used as a dictionary key or put in a         *)
(* message.  A Python list indexed 0, 1 is a sequence indexed 1, 2.  An    *)
(* exception is a record (type, message); a function that may raise        *)
(* returns the state it leaves behind together with what it raised.        *)
(*                                                                         *)
(* Plane vectors are pairs of integers: the first counts quarters of       *)
(* HEXA_WIDTH along UNIT_X, the second counts thirtieths of                *)
(* sqrt(3)*HEXA_WIDTH along UNIT_Y.  In these units every length the       *)
(* program uses for a centre is a whole number (see UNIT_V, HEXA_DELTA_Y,  *)
(* CUBE_SHIFT), so the arithmetic below is exact.                          *)
(***************************************************************************)
EXTENDS Integers, Sequences, FiniteSets, TLC

VARIABLES
    pc,                 \* "import": module imported, draw_jersi not yet run; "mainloop": window up
    State,              \* jersi_gui.STATE (a reserved word here): label -> <<slot 0, slot 1>>
    DRAW_CUBE_FACES,    \* jersi_gui.DRAW_CUBE_FACES
    DRAW_EXTRA,         \* jersi_gui.DRAW_EXTRA
    JERSI_STATE_FILE,   \* jersi_gui.JERSI_STATE_FILE, a path
    log,                \* log_variable of draw_jersi: the message shown to the user
    canvas,             \* main_canvas of draw_jersi: its display list
    exported,           \* the export path last written by write_file, or None
    file_stream,        \* the lines of the file last opened by read_state_file
    input,              \* the argument under test (specifications that exercise one function)
    output              \* what the function under test returned or raised

vars == <<pc, State, DRAW_CUBE_FACES, DRAW_EXTRA, JERSI_STATE_FILE, log, canvas,
          exported, file_stream, input, output>>

None == <<>>

(***************************************************************************)
(* Bounds of the model.                                                    *)
(***************************************************************************)
\* longest file (in lines) the Read button is given in Spec
MaxLines == 1
\* longest file (in lines) loaded in LoadSpec
MaxLoadLines == 2
\* longest line (in characters, before its line end) parsed in ParseSpec
MaxLineLen == 4
\* most set_cube_at_position calls made on one label in PushSpec
MaxCalls == 3

(***************************************************************************)
(* Exceptions (JersiError, lines 35-48, and the built-in ones).            *)
(***************************************************************************)
NoException == [type |-> "None", message |-> <<>>]

JersiError(message) == [type |-> "JersiError", message |-> message]

\* raise of something that is no exception (line 1171): Python 3 raises
\* TypeError("exceptions must derive from BaseException") in its place
TypeError == [type |-> "TypeError", message |-> <<"exceptions must derive from BaseException">>]

KeyError(key) == [type |-> "KeyError", message |-> <<key>>]

FileNotFoundError == [type |-> "FileNotFoundError", message |-> <<>>]

\* jersi_assert(condition, message): what it raises
jersi_assert(condition, message) ==
    IF condition THEN NoException ELSE JersiError(message)

(***************************************************************************)
(* Geometry constants, in the units described above.                       *)
(***************************************************************************)
\* HEXA_WIDTH*UNIT_U, with UNIT_U = UNIT_X
UNIT_U == <<4, 0>>

\* HEXA_WIDTH*UNIT_V, with UNIT_V = cos(60 deg)*UNIT_X + sin(60 deg)*UNIT_Y
UNIT_V == <<2, 15>>

\* ORIGIN: the canvas centre, taken as the origin of the plane
ORIGIN == <<0, 0>>

\* HEXA_DELTA_Y = sqrt(HEXA_SIDE^2 - (HEXA_WIDTH/2)^2) = sqrt(3)*HEXA_WIDTH/6
HEXA_DELTA_Y == 5

\* 0.40*HEXA_SIDE, the distance of a stacked cube from the hexagon centre
CUBE_SHIFT == 4

(***************************************************************************)
(* The registry Hexagon.alls.                                              *)
(***************************************************************************)
HexagonColor == {"INNER", "MAIN", "OUTER", "EXTRA"}

CubeColor == {"BLACK", "WHITE"}

CubeConfig == {"BOTTOM", "SINGLE", "TOP"}

CubeType == {"KING", "FOOL", "PAPER", "ROCK", "SCISSORS", "MOUNTAIN", "WISE"}

\* CubeType(...).value: the letter of a kind
CubeTypeValue ==
    [KING |-> "K", FOOL |-> "F", PAPER |-> "P", ROCK |-> "R",
     SCISSORS |-> "S", MOUNTAIN |-> "M", WISE |-> "W"]

\* Mutation of Hexagon: self.is_extra is not taken from the argument, every
\* cell is built as a regular cell
Hexagon_never_extra(label, position_uv, color, is_extra, extra_shift) ==
    [label |-> label, position_uv |-> position_uv, color |-> color,
     is_extra |-> FALSE, extra_shift |-> extra_shift]

\* Hexagon.__init__: the object built (the consistency assertion is Hexagon_init_raises)
Hexagon(label, position_uv, color, is_extra, extra_shift) ==
    [label |-> label, position_uv |-> position_uv, color |-> color,
     is_extra |-> is_extra, extra_shift |-> extra_shift]

Hexagon_init_raises(h) ==
    jersi_assert(h.is_extra = (h.extra_shift # None),
                 <<"is_extra and extra_shift not consisten for label '%s'", h.label>>)

\* The Hexagon.add calls of lines 309-412, in order.  extra_shift is written
\* in the plane units: 0.75*HEXA_WIDTH*UNIT_X - HEXA_DELTA_Y*UNIT_Y is <<3, -5>>.
HexagonTable ==
  <<
    Hexagon("a1", <<-1, -4>>, "OUTER", FALSE, None),
    Hexagon("a2", <<0, -4>>, "OUTER", FALSE, None),
    Hexagon("a3", <<1, -4>>, "OUTER", FALSE, None),
    Hexagon("a4", <<2, -4>>, "OUTER", FALSE, None),
    Hexagon("a5", <<3, -4>>, "OUTER", FALSE, None),
    Hexagon("a6", <<4, -4>>, "OUTER", FALSE, None),
    Hexagon("a7", <<5, -4>>, "OUTER", FALSE, None),
    Hexagon("a", <<6, -4>>, "EXTRA", TRUE, <<3, -5>>),
    Hexagon("b1", <<-2, -3>>, "OUTER", FALSE, None),
    Hexagon("b2", <<-1, -3>>, "MAIN", FALSE, None),
    Hexagon("b3", <<0, -3>>, "MAIN", FALSE, None),
    Hexagon("b4", <<1, -3>>, "MAIN", FALSE, None),
    Hexagon("b5", <<2, -3>>, "MAIN", FALSE, None),
    Hexagon("b6", <<3, -3>>, "MAIN", FALSE, None),
    Hexagon("b7", <<4, -3>>, "MAIN", FALSE, None),
    Hexagon("b8", <<5, -3>>, "OUTER", FALSE, None),
    Hexagon("b", <<6, -3>>, "EXTRA", TRUE, <<1, 0>>),
    Hexagon("c1", <<-2, -2>>, "OUTER", FALSE, None),
    Hexagon("c2", <<-1, -2>>, "MAIN", FALSE, None),
    Hexagon("c3", <<0, -2>>, "INNER", FALSE, None),
    Hexagon("c4", <<1, -2>>, "INNER", FALSE, None),
    Hexagon("c5", <<2, -2>>, "INNER", FALSE, None),
    Hexagon("c6", <<3, -2>>, "MAIN", FALSE, None),
    Hexagon("c7", <<4, -2>>, "OUTER", FALSE, None),
    Hexagon("c", <<5, -2>>, "EXTRA", TRUE, <<3, 5>>),
    Hexagon("d1", <<-3, -1>>, "OUTER", FALSE, None),
    Hexagon("d2", <<-2, -1>>, "MAIN", FALSE, None),
    Hexagon("d3", <<-1, -1>>, "INNER", FALSE, None),
    Hexagon("d4", <<0, -1>>, "MAIN", FALSE, None),
    Hexagon("d5", <<1, -1>>, "MAIN", FALSE, None),
    Hexagon("d6", <<2, -1>>, "INNER", FALSE, None),
    Hexagon("d7", <<3, -1>>, "MAIN", FALSE, None),
    Hexagon("d8", <<4, -1>>, "OUTER", FALSE, None),
    Hexagon("e1", <<-4, 0>>, "OUTER", FALSE, None),
    Hexagon("e2", <<-3, 0>>, "MAIN", FALSE, None),
    Hexagon("e3", <<-2, 0>>, "INNER", FALSE, None),
    Hexagon("e4", <<-1, 0>>, "MAIN", FALSE, None),
    Hexagon("e5", <<0, 0>>, "INNER", FALSE, None),
    Hexagon("e6", <<1, 0>>, "MAIN", FALSE, None),
    Hexagon("e7", <<2, 0>>, "INNER", FALSE, None),
    Hexagon("e8", <<3, 0>>, "MAIN", FALSE, None),
    Hexagon("e9", <<4, 0>>, "OUTER", FALSE, None),
    Hexagon("f1", <<-4, 1>>, "OUTER", FALSE, None),
    Hexagon("f2", <<-3, 1>>, "MAIN", FALSE, None),
    Hexagon("f3", <<-2, 1>>, "INNER", FALSE, None),
    Hexagon("f4", <<-1, 1>>, "MAIN", FALSE, None),
    Hexagon("f5", <<0, 1>>, "MAIN", FALSE, None),
    Hexagon("f6", <<1, 1>>, "INNER", FALSE, None),
    Hexagon("f7", <<2, 1>>, "MAIN", FALSE, None),
    Hexagon("f8", <<3, 1>>, "OUTER", FALSE, None),
    Hexagon("g", <<-5, 2>>, "EXTRA", TRUE, <<-3, -5>>),
    Hexagon("g1", <<-4, 2>>, "OUTER", FALSE, None),
    Hexagon("g2", <<-3, 2>>, "MAIN", FALSE, None),
    Hexagon("g3", <<-2, 2>>, "INNER", FALSE, None),
    Hexagon("g4", <<-1, 2>>, "INNER", FALSE, None),
    Hexagon("g5", <<0, 2>>, "INNER", FALSE, None),
    Hexagon("g6", <<1, 2>>, "MAIN", FALSE, None),
    Hexagon("g7", <<2, 2>>, "OUTER", FALSE, None),
    Hexagon("h", <<-6, 3>>, "EXTRA", TRUE, <<-1, 0>>),
    Hexagon("h1", <<-5, 3>>, "OUTER", FALSE, None),
    Hexagon("h2", <<-4, 3>>, "MAIN", FALSE, None),
    Hexagon("h3", <<-3, 3>>, "MAIN", FALSE, None),
    Hexagon("h4", <<-2, 3>>, "MAIN", FALSE, None),
    Hexagon("h5", <<-1, 3>>, "MAIN", FALSE, None),
    Hexagon("h6", <<0, 3>>, "MAIN", FALSE, None),
    Hexagon("h7", <<1, 3>>, "MAIN", FALSE, None),
    Hexagon("h8", <<2, 3>>, "OUTER", FALSE, None),
    Hexagon("i", <<-6, 4>>, "EXTRA", TRUE, <<-3, 5>>),
    Hexagon("i1", <<-5, 4>>, "OUTER", FALSE, None),
    Hexagon("i2", <<-4, 4>>, "OUTER", FALSE, None),
    Hexagon("i3", <<-3, 4>>, "OUTER", FALSE, None),
    Hexagon("i4", <<-2, 4>>, "OUTER", FALSE, None),
    Hexagon("i5", <<-1, 4>>, "OUTER", FALSE, None),
    Hexagon("i6", <<0, 4>>, "OUTER", FALSE, None),
    Hexagon("i7", <<1, 4>>, "OUTER", FALSE, None)
  >>

\* Hexagon.add(label, ...) on the registry alls (an insertion-ordered dict,
\* here the sequence of its values): the registry it leaves and what it raises
HasLabel(alls, label) == \E i \in 1..Len(alls) : alls[i].label = label

\* Mutation of Hexagon_add: no assertion on the label, the plain dict
\* assignment of line 306 replaces the cell of a label already registered
Hexagon_add_replacing(alls, h) ==
    LET inconsistent == Hexagon_init_raises(h)
    IN  IF inconsistent # NoException THEN [alls |-> alls, raised |-> inconsistent]
        ELSE IF HasLabel(alls, h.label)
            THEN [alls |-> [i \in 1..Len(alls) |->
                               IF alls[i].label = h.label THEN h ELSE alls[i]],
                  raised |-> NoException]
        ELSE [alls |-> Append(alls, h), raised |-> NoException]

Hexagon_add(alls, h) ==
    LET duplicate == jersi_assert(~HasLabel(alls, h.label),
                                  <<"no hexagon with label '%s'", h.label>>)
        inconsistent == Hexagon_init_raises(h)
    IN  IF duplicate # NoException THEN [alls |-> alls, raised |-> duplicate]
        ELSE IF inconsistent # NoException THEN [alls |-> alls, raised |-> inconsistent]
        ELSE [alls |-> Append(alls, h), raised |-> NoException]

\* the module-level calls of lines 309-412 run in order; the first raise ends
\* the import.  The run of a list of calls is the run of its first half followed,
\* if nothing was raised, by the run of its second half on the registry the first
\* left (bound as the element of a singleton set: it is evaluated once).
RECURSIVE RunTable(_, _)
RunTable(alls, calls) ==
    IF calls = <<>> THEN [alls |-> alls, raised |-> NoException]
    ELSE IF Len(calls) = 1 THEN Hexagon_add(alls, calls[1])
    ELSE CHOOSE done \in
             {IF r.raised # NoException THEN r
              ELSE RunTable(r.alls, SubSeq(calls, Len(calls) \div 2 + 1, Len(calls))) :
                  r \in {RunTable(alls, SubSeq(calls, 1, Len(calls) \div 2))}} : TRUE

\* Hexagon.alls once the module is imported
Hexagon_alls == RunTable(<<>>, HexagonTable).alls

\* the keys of Hexagon.alls
Labels == {Hexagon_alls[i].label : i \in 1..Len(Hexagon_alls)}

\* Hexagon.alls[key]
HexagonByLabel ==
    [key \in Labels |->
        Hexagon_alls[CHOOSE i \in 1..Len(Hexagon_alls) : Hexagon_alls[i].label = key]]

HexagonAt(key) == HexagonByLabel[key]

(***************************************************************************)
(* CUBE_COLORED_TYPES (lines 267-284).                                     *)
(***************************************************************************)
\* Mutation of CUBE_COLORED_TYPES: 'w' gives the white wise
CUBE_COLORED_TYPES_white_w ==
    [K |-> <<"KING", "WHITE">>, F |-> <<"FOOL", "WHITE">>, R |-> <<"ROCK", "WHITE">>,
     P |-> <<"PAPER", "WHITE">>, S |-> <<"SCISSORS", "WHITE">>,
     M |-> <<"MOUNTAIN", "WHITE">>, W |-> <<"WISE", "WHITE">>,
     k |-> <<"KING", "BLACK">>, f |-> <<"FOOL", "BLACK">>, r |-> <<"ROCK", "BLACK">>,
     p |-> <<"PAPER", "BLACK">>, s |-> <<"SCISSORS", "BLACK">>,
     m |-> <<"MOUNTAIN", "BLACK">>, w |-> <<"WISE", "WHITE">>]

\* Mutation of CUBE_COLORED_TYPES: no entry for 'w'
CUBE_COLORED_TYPES_without_w ==
    [K |-> <<"KING", "WHITE">>, F |-> <<"FOOL", "WHITE">>, R |-> <<"ROCK", "WHITE">>,
     P |-> <<"PAPER", "WHITE">>, S |-> <<"SCISSORS", "WHITE">>,
     M |-> <<"MOUNTAIN", "WHITE">>, W |-> <<"WISE", "WHITE">>,
     k |-> <<"KING", "BLACK">>, f |-> <<"FOOL", "BLACK">>, r |-> <<"ROCK", "BLACK">>,
     p |-> <<"PAPER", "BLACK">>, s |-> <<"SCISSORS", "BLACK">>,
     m |-> <<"MOUNTAIN", "BLACK">>]

CUBE_COLORED_TYPES ==
    [K |-> <<"KING", "WHITE">>, F |-> <<"FOOL", "WHITE">>, R |-> <<"ROCK", "WHITE">>,
     P |-> <<"PAPER", "WHITE">>, S |-> <<"SCISSORS", "WHITE">>,
     M |-> <<"MOUNTAIN", "WHITE">>, W |-> <<"WISE", "WHITE">>,
     k |-> <<"KING", "BLACK">>, f |-> <<"FOOL", "BLACK">>, r |-> <<"ROCK", "BLACK">>,
     p |-> <<"PAPER", "BLACK">>, s |-> <<"SCISSORS", "BLACK">>,
     m |-> <<"MOUNTAIN", "BLACK">>, w |-> <<"WISE", "BLACK">>]

(***************************************************************************)
(* The board state: reset_state, set_cube_at_position, init_state.         *)
(***************************************************************************)
\* Mutation of reset_state: only the labels that State does not hold yet get
\* an empty stack (a reset that initialises instead of clearing)
reset_state_missing_only(S) ==
    [label \in DOMAIN S \cup Labels |-> IF label \in DOMAIN S THEN S[label] ELSE <<None, None>>]

\* reset_state(): State[label] = [None, None] for every hexagon.  Keys that
\* State already holds stay; it never holds a key that is no label.
reset_state(S) ==
    [label \in DOMAIN S \cup Labels |-> IF label \in Labels THEN <<None, None>> ELSE S[label]]

\* Mutation of set_cube_at_position: the assertions on position_label are
\* missing, so an unknown position surfaces as the KeyError of State[position_label]
set_cube_unchecked(S, position_label, cube_label) ==
    IF position_label \notin DOMAIN S
    THEN [State |-> S, raised |-> KeyError(position_label)]
    ELSE IF cube_label \notin DOMAIN CUBE_COLORED_TYPES /\ S[position_label][2] = None
    THEN [State |-> S, raised |-> KeyError(cube_label)]
    ELSE IF S[position_label][1] = None
    THEN [State |-> [S EXCEPT ![position_label][1] = CUBE_COLORED_TYPES[cube_label]],
          raised |-> NoException]
    ELSE IF S[position_label][2] = None
    THEN [State |-> [S EXCEPT ![position_label][2] = CUBE_COLORED_TYPES[cube_label]],
          raised |-> NoException]
    ELSE [State |-> S, raised |-> TypeError]

\* Mutation of set_cube_at_position: on a full stack the new piece replaces
\* the top one instead of being refused
set_cube_overwriting(S, position_label, cube_label) ==
    IF position_label \notin Labels
    THEN [State |-> S, raised |-> JersiError(<<"no hexagon at label '%s'", position_label>>)]
    ELSE IF position_label \notin DOMAIN S
    THEN [State |-> S, raised |-> KeyError(position_label)]
    ELSE IF cube_label \notin DOMAIN CUBE_COLORED_TYPES
    THEN [State |-> S, raised |-> KeyError(cube_label)]
    ELSE IF S[position_label][1] = None
    THEN [State |-> [S EXCEPT ![position_label][1] = CUBE_COLORED_TYPES[cube_label]],
          raised |-> NoException]
    ELSE [State |-> [S EXCEPT ![position_label][2] = CUBE_COLORED_TYPES[cube_label]],
          raised |-> NoException]

\* set_cube_at_position(position_label, cube_label) on the board S: the board
\* it leaves and what it raises
set_cube_at_position(S, position_label, cube_label) ==
    LET no_hexagon == jersi_assert(position_label \in Labels,
                                   <<"no hexagon at label '%s'", position_label>>)
        \* line 1161 tests position_label again, not cube_label
        no_type == jersi_assert(position_label \in Labels,
                                <<"no cube colored type '%s'", cube_label>>)
    IN  IF no_hexagon # NoException THEN [State |-> S, raised |-> no_hexagon]
        ELSE IF no_type # NoException THEN [State |-> S, raised |-> no_type]
        ELSE IF position_label \notin DOMAIN S
            THEN [State |-> S, raised |-> KeyError(position_label)]
        ELSE IF S[position_label][1] = None
            THEN IF cube_label \in DOMAIN CUBE_COLORED_TYPES
                 THEN [State |-> [S EXCEPT ![position_label][1] = CUBE_COLORED_TYPES[cube_label]],
                       raised |-> NoException]
                 ELSE [State |-> S, raised |-> KeyError(cube_label)]
        ELSE IF S[position_label][2] = None
            THEN IF cube_label \in DOMAIN CUBE_COLORED_TYPES
                 THEN [State |-> [S EXCEPT ![position_label][2] = CUBE_COLORED_TYPES[cube_label]],
                       raised |-> NoException]
                 ELSE [State |-> S, raised |-> KeyError(cube_label)]
        ELSE [State |-> S, raised |-> TypeError]

\* a run of set_cube_at_position calls, <<cube_label, position_label>> each,
\* ended by the first one that raises
RECURSIVE set_cubes(_, _)
set_cubes(S, instructions) ==
    IF instructions = <<>> THEN [State |-> S, raised |-> NoException]
    ELSE IF Len(instructions) = 1
        THEN set_cube_at_position(S, instructions[1][2], instructions[1][1])
    ELSE CHOOSE done \in
             {IF r.raised # NoException THEN r
              ELSE set_cubes(r.State, SubSeq(instructions, Len(instructions) \div 2 + 1,
                                             Len(instructions))) :
                  r \in {set_cubes(S, SubSeq(instructions, 1,
                                             Len(instructions) \div 2))}} : TRUE

\* the set_cube_at_position calls of init_state (lines 1065-1120), as
\* <<cube_label, position_label>>
InitCalls ==
    << <<"F", "b1">>, <<"F", "b8">>, <<"K", "a4">>,
       <<"R", "b2">>, <<"P", "b3">>, <<"S", "b4">>, <<"R", "b5">>, <<"P", "b6">>, <<"S", "b7">>,
       <<"R", "a3">>, <<"S", "a2">>, <<"P", "a1">>, <<"S", "a5">>, <<"R", "a6">>, <<"P", "a7">>,
       <<"f", "h1">>, <<"f", "h8">>, <<"k", "i4">>,
       <<"r", "h7">>, <<"p", "h6">>, <<"s", "h5">>, <<"r", "h4">>, <<"p", "h3">>, <<"s", "h2">>,
       <<"r", "i5">>, <<"s", "i6">>, <<"p", "i7">>, <<"s", "i3">>, <<"r", "i2">>, <<"p", "i1">>,
       <<"W", "c">>, <<"W", "c">>, <<"M", "b">>, <<"M", "b">>, <<"M", "a">>, <<"M", "a">>,
       <<"m", "i">>, <<"m", "i">>, <<"m", "h">>, <<"m", "h">>, <<"w", "g">>, <<"w", "g">> >>

\* Mutation of init_state: the reserve pieces (the last twelve calls) are not placed
init_state_without_reserve(S) == set_cubes(reset_state(S), SubSeq(InitCalls, 1, 30))

\* init_state(): reset_state, then the calls above
init_state(S) == set_cubes(reset_state(S), InitCalls)

(***************************************************************************)
(* The notation reader: read_state_file (lines 1123-1152).                 *)
(***************************************************************************)
\* the characters \s matches, among those the model's files are written in
Whitespace == {" ", "\t", "\n", "\r", "\f"}

\* the one-string form of a sequence of characters
RECURSIVE join(_)
join(chars) == IF chars = <<>> THEN "" ELSE Head(chars) \o join(Tail(chars))

\* re.match(r'^\s*$', line): $ also matches before a final line end, itself whitespace
is_blank(line) == \A i \in 1..Len(line) : line[i] \in Whitespace

\* Mutation of is_comment: the '#' must be the first character of the line,
\* r'^#.*$' for r'^\s*#.*$'
is_comment_at_line_start(line) ==
    /\ Len(line) >= 1
    /\ line[1] = "#"
    /\ \A j \in 2..Len(line) : line[j] = "\n" => j = Len(line)

\* re.match(r'^\s*#.*$', line): '.' matches no line end, $ matches at the end
\* or before a final line end
is_comment(line) ==
    \E i \in 1..Len(line) :
        /\ line[i] = "#"
        /\ \A j \in 1..(i - 1) : line[j] \in Whitespace
        /\ \A j \in (i + 1)..Len(line) : line[j] = "\n" => j = Len(line)

\* re.sub(r'\s', '', line)
strip_whitespace(line) == SelectSeq(line, LAMBDA ch : ch \notin Whitespace)

\* re.split(sep, text) for a one-character sep
RECURSIVE re_split(_, _)
re_split(sep, text) ==
    IF \E i \in 1..Len(text) : text[i] = sep
    THEN LET i == CHOOSE k \in 1..Len(text) :
                      text[k] = sep /\ \A j \in 1..(k - 1) : text[j] # sep
         IN  <<SubSeq(text, 1, i - 1)>> \o re_split(sep, SubSeq(text, i + 1, Len(text)))
    ELSE <<text>>

CubeLetters == {"K", "F", "R", "P", "S", "M", "W", "k", "f", "r", "p", "s", "m", "w"}

RowLetters == {"a", "b", "c", "d", "e", "f", "g", "h", "i"}

ColumnDigits == {"1", "2", "3", "4", "5", "6", "7", "8", "9"}

\* Mutation of match_item: the column may be any digit, [0-9] for [1-9]
match_item_any_digit(item) ==
    LET n == Len(item)
        m == IF n > 0 /\ item[n] = "\n" THEN n - 1 ELSE n
        fits(len) == /\ len \in {3, 4}
                     /\ item[1] \in CubeLetters
                     /\ item[2] = ":"
                     /\ item[3] \in RowLetters
                     /\ len = 4 => item[4] \in ColumnDigits \cup {"0"}
    IN  fits(n) \/ fits(m)

\* re.match(r'^([KFRPSMW]|[kfrpsmw]):[a-i][1-9]?$', item): $ matches at the
\* end of item or before a line end that is its last character
match_item(item) ==
    LET n == Len(item)
        m == IF n > 0 /\ item[n] = "\n" THEN n - 1 ELSE n
        fits(len) == /\ len \in {3, 4}
                     /\ item[1] \in CubeLetters
                     /\ item[2] = ":"
                     /\ item[3] \in RowLetters
                     /\ len = 4 => item[4] \in ColumnDigits
    IN  fits(n) \/ fits(m)

\* lines 1143-1148 for one line that is neither blank nor a comment: the
\* instructions it adds, until the first item that does not match
RECURSIVE read_items(_, _, _)

\* Mutation of read_items: each instruction is put in front of the list, so
\* the instructions of a line come out right to left
RECURSIVE read_items_prepending(_, _, _)
read_items_prepending(items, line, instructions) ==
    IF items = <<>> THEN [instructions |-> instructions, raised |-> NoException]
    ELSE IF match_item(Head(items))
        THEN read_items_prepending(Tail(items), line,
                                   <<re_split(":", Head(items))>> \o instructions)
        ELSE [instructions |-> instructions,
              raised |-> JersiError(<<"wrong item '%s' in line '%s'",
                                      join(Head(items)), join(line)>>)]

read_items(items, line, instructions) ==
    IF items = <<>> THEN [instructions |-> instructions, raised |-> NoException]
    ELSE IF match_item(Head(items))
        THEN read_items(Tail(items), line, Append(instructions, re_split(":", Head(items))))
        ELSE [instructions |-> instructions,
              raised |-> JersiError(<<"wrong item '%s' in line '%s'",
                                      join(Head(items)), join(line)>>)]

\* lines 1132-1148: the loop over the lines of the file (the stripped line and
\* the outcome of its items are bound as the elements of singleton sets)
RECURSIVE read_lines(_, _)
read_lines(lines, instructions) ==
    IF lines = <<>> THEN [instructions |-> instructions, raised |-> NoException]
    ELSE IF is_blank(Head(lines)) \/ is_comment(Head(lines))
        THEN read_lines(Tail(lines), instructions)
        ELSE CHOOSE done \in
                 UNION {{IF r.raised # NoException THEN r
                         ELSE read_lines(Tail(lines), r.instructions) :
                             r \in {read_items(re_split("/", line), line, instructions)}} :
                           line \in {strip_whitespace(Head(lines))}} : TRUE

\* the instruction <<cube_label, position_label>> as the strings the
\* dictionaries are keyed by
AsStrings(instruction) == <<join(instruction[1]), join(instruction[2])>>

\* what open(file_name, 'r') finds: no file, or a file and its lines
NoFile == [found |-> FALSE, lines |-> <<>>]

File(lines) == [found |-> TRUE, lines |-> lines]

\* Mutation of read_state_file: when an item is wrong, the instructions read
\* before it are applied all the same
read_state_file_partial(S, file) ==
    LET S0 == reset_state(S)
        parsed == read_lines(file.lines, <<>>)
        applied == set_cubes(S0, [i \in 1..Len(parsed.instructions) |->
                                     AsStrings(parsed.instructions[i])])
    IN  IF ~file.found THEN [State |-> S0, raised |-> FileNotFoundError]
        ELSE IF parsed.raised # NoException
            THEN [State |-> applied.State, raised |-> parsed.raised]
        ELSE applied

\* read_state_file(file_name) on the board S, file being what open() finds:
\* the board it leaves and what it raises
read_state_file(S, file) ==
    CHOOSE done \in
        {IF ~file.found THEN [State |-> S0, raised |-> FileNotFoundError]
         ELSE IF parsed.raised # NoException THEN [State |-> S0, raised |-> parsed.raised]
         ELSE set_cubes(S0, [i \in 1..Len(parsed.instructions) |->
                                 AsStrings(parsed.instructions[i])]) :
             S0 \in {reset_state(S)}, parsed \in {read_lines(file.lines, <<>>)}} : TRUE

(***************************************************************************)
(* The renderer: draw_hexagon, draw_cube, draw_state (lines 683-848).      *)
(* The canvas is its display list: the items created since the last        *)
(* delete('all'), in creation order, grouped by the call that created them.*)
(***************************************************************************)
Plus(a, b) == <<a[1] + b[1], a[2] + b[2]>>

Times(k, a) == <<k * a[1], k * a[2]>>

\* Mutation of hexagon_center: extra_shift is added twice
hexagon_center_shifted_twice(position_uv, extra_shift) ==
    LET center == Plus(ORIGIN, Plus(Times(position_uv[1], UNIT_U), Times(position_uv[2], UNIT_V)))
    IN  IF extra_shift # None THEN Plus(Plus(center, extra_shift), extra_shift) ELSE center

\* draw_hexagon, lines 710-715: ORIGIN + HEXA_WIDTH*(u*UNIT_U + v*UNIT_V), plus extra_shift
hexagon_center(position_uv, extra_shift) ==
    LET center == Plus(ORIGIN, Plus(Times(position_uv[1], UNIT_U), Times(position_uv[2], UNIT_V)))
    IN  IF extra_shift # None THEN Plus(center, extra_shift) ELSE center

\* draw_cube, lines 757-762: the same computation, written a second time,
\* from the fields of the hexagon
cube_hexagon_center(hexagon) ==
    LET u == hexagon.position_uv[1]
        v == hexagon.position_uv[2]
        center == Plus(ORIGIN, Plus(Times(u, UNIT_U), Times(v, UNIT_V)))
    IN  IF hexagon.extra_shift # None THEN Plus(center, hexagon.extra_shift) ELSE center

\* draw_hexagon(...): the items it creates
draw_hexagon(position_uv, fill_color, label, is_extra, extra_shift, extra) ==
    IF is_extra /\ ~extra THEN <<>>
    ELSE LET center == hexagon_center(position_uv, extra_shift)
             polygon == [item |-> "polygon", key |-> label, center |-> center,
                         fill |-> fill_color,
                         outline |-> IF is_extra THEN "" ELSE "black"]
             text == [item |-> "text", key |-> label, center |-> center,
                      text |-> label, fill |-> "black"]
         IN  IF label # "" /\ ~is_extra THEN <<polygon, text>> ELSE <<polygon>>

\* draw_all_hexagons(canvas): the items of each draw_hexagon call, in the
\* order of Hexagon.alls
AllHexagonItems ==
    [extra \in BOOLEAN |->
        [i \in 1..Len(Hexagon_alls) |->
            LET h == Hexagon_alls[i]
            IN  draw_hexagon(h.position_uv, h.color, h.label, h.is_extra, h.extra_shift, extra)]]

draw_all_hexagons(extra) == AllHexagonItems[extra]

\* Mutation of FACE_DRAWERS: the entry of CubeType.WISE is missing
FACE_DRAWERS_without_wise ==
    [FOOL |-> "draw_fool_face", KING |-> "draw_king_face", PAPER |-> "draw_paper_face",
     ROCK |-> "draw_rock_face", SCISSORS |-> "draw_scissors_face",
     MOUNTAIN |-> "draw_mountain_face"]

\* FACE_DRAWERS (lines 683-690): the face function of each kind
FACE_DRAWERS ==
    [FOOL |-> "draw_fool_face", KING |-> "draw_king_face", PAPER |-> "draw_paper_face",
     ROCK |-> "draw_rock_face", SCISSORS |-> "draw_scissors_face",
     MOUNTAIN |-> "draw_mountain_face", WISE |-> "draw_wise_face"]

\* what a face function creates around cube_center: draw_king_face creates
\* nothing (lines 415-416); the strokes of the others are one item here
draw_face(drawer, key, cube_center, face_color) ==
    IF drawer = "draw_king_face" THEN <<>>
    ELSE <<[item |-> "face", key |-> key, center |-> cube_center,
            drawer |-> drawer, fill |-> face_color]>>

\* lines 769-776: the centre of the cube for a configuration
cube_center_of(center, config) ==
    IF config = "SINGLE" THEN center
    ELSE IF config = "BOTTOM" THEN <<center[1], center[2] - CUBE_SHIFT>>
    ELSE <<center[1], center[2] + CUBE_SHIFT>>

\* str.lower on the letters of the kinds
str_lower == [K |-> "k", F |-> "f", P |-> "p", R |-> "r", S |-> "s", M |-> "m", W |-> "w"]

\* Mutation of draw_cube: the test of lines 754-755 is missing, a cube on a
\* reserve cell is drawn whatever DRAW_EXTRA is
draw_cube_on_hidden_reserve(key, config, color, cube_type, faces, extra) ==
    LET hexagon == HexagonAt(key)
        cube_center == cube_center_of(cube_hexagon_center(hexagon), config)
        fill_color == IF color = "BLACK" THEN "black" ELSE "white"
        face_color == IF color = "BLACK" THEN "white" ELSE "black"
        letter == CubeTypeValue[cube_type]
        rectangle == [item |-> "rectangle", key |-> key, center |-> cube_center,
                      config |-> config, fill |-> fill_color, outline |-> ""]
    IN  IF color \notin CubeColor
            THEN [items |-> <<>>, raised |-> JersiError(<<"not a CubeColor '%s'", color>>)]
        ELSE IF faces
            THEN IF cube_type \in DOMAIN FACE_DRAWERS
                 THEN [items |-> <<rectangle>> \o
                                 draw_face(FACE_DRAWERS[cube_type], key, cube_center, face_color),
                       raised |-> NoException]
                 ELSE [items |-> <<rectangle>>, raised |-> KeyError(cube_type)]
        ELSE [items |-> <<rectangle,
                          [item |-> "text", key |-> key, center |-> cube_center,
                           \* str.lower / str.upper of the kind's letter
                           text |-> IF color = "BLACK" THEN str_lower[letter] ELSE letter,
                           fill |-> face_color]>>,
              raised |-> NoException]

\* draw_cube(canvas, key, config, color, cube_type): the items it creates and
\* what it raises (draw_state always passes a cube_type)
draw_cube(key, config, color, cube_type, faces, extra) ==
    LET hexagon == HexagonAt(key)
        cube_center == cube_center_of(cube_hexagon_center(hexagon), config)
        fill_color == IF color = "BLACK" THEN "black" ELSE "white"
        face_color == IF color = "BLACK" THEN "white" ELSE "black"
        letter == CubeTypeValue[cube_type]
        rectangle == [item |-> "rectangle", key |-> key, center |-> cube_center,
                      config |-> config, fill |-> fill_color, outline |-> ""]
    IN  IF hexagon.is_extra /\ ~extra THEN [items |-> <<>>, raised |-> NoException]
        ELSE IF color \notin CubeColor
            THEN [items |-> <<>>, raised |-> JersiError(<<"not a CubeColor '%s'", color>>)]
        ELSE IF faces
            THEN IF cube_type \in DOMAIN FACE_DRAWERS
                 THEN [items |-> <<rectangle>> \o
                                 draw_face(FACE_DRAWERS[cube_type], key, cube_center, face_color),
                       raised |-> NoException]
                 ELSE [items |-> <<rectangle>>, raised |-> KeyError(cube_type)]
        ELSE [items |-> <<rectangle,
                          [item |-> "text", key |-> key, center |-> cube_center,
                           \* str.lower / str.upper of the kind's letter
                           text |-> IF color = "BLACK" THEN str_lower[letter] ELSE letter,
                           fill |-> face_color]>>,
              raised |-> NoException]

\* Mutation of draw_position: the pieces of the two slots are exchanged, the
\* piece of slot 0 is drawn as TOP and the piece of slot 1 as BOTTOM
draw_position_slots_exchanged(position_label, position_state, faces, extra) ==
    IF position_state[2] # None
    THEN LET top == draw_cube(position_label, "TOP", position_state[1][2],
                              position_state[1][1], faces, extra)
             bottom == draw_cube(position_label, "BOTTOM", position_state[2][2],
                                 position_state[2][1], faces, extra)
         IN  IF top.raised # NoException THEN top
             ELSE [items |-> top.items \o bottom.items, raised |-> bottom.raised]
    ELSE IF position_state[1] # None
    THEN draw_cube(position_label, "SINGLE", position_state[1][2],
                   position_state[1][1], faces, extra)
    ELSE [items |-> <<>>, raised |-> NoException]

\* lines 829-848 for one entry of State: the cubes drawn for it
draw_position(position_label, position_state, faces, extra) ==
    IF position_state[2] # None
    THEN LET top == draw_cube(position_label, "TOP", position_state[2][2],
                              position_state[2][1], faces, extra)
             bottom == draw_cube(position_label, "BOTTOM", position_state[1][2],
                                 position_state[1][1], faces, extra)
         IN  IF top.raised # NoException THEN top
             ELSE [items |-> top.items \o bottom.items, raised |-> bottom.raised]
    ELSE IF position_state[1] # None
    THEN draw_cube(position_label, "SINGLE", position_state[1][2],
                   position_state[1][1], faces, extra)
    ELSE [items |-> <<>>, raised |-> NoException]

\* the loop of lines 829-848 over STATE.items(), in the order reset_state
\* inserted the keys (the order of Hexagon.alls): what each entry would create
draw_entries(S, faces, extra) ==
    [i \in 1..Len(Hexagon_alls) |->
        IF Hexagon_alls[i].label \in DOMAIN S
        THEN draw_position(Hexagon_alls[i].label, S[Hexagon_alls[i].label], faces, extra)
        ELSE [items |-> <<>>, raised |-> NoException]]

\* the first entry that raises, the last entry if none does
first_raising(entries) ==
    LET raising == {i \in 1..Len(entries) : entries[i].raised # NoException}
    IN  IF raising = {} THEN Len(entries)
        ELSE CHOOSE i \in raising : \A j \in raising : i <= j

\* the loop ends at the first entry that raises: the items created for each
\* entry up to it, and what it raises
draw_upto(entries, first) ==
    [items |-> [i \in 1..Len(entries) |-> IF i <= first THEN entries[i].items ELSE <<>>],
     raised |-> entries[first].raised]

\* (the board, the entries and the index are bound as the elements of
\* singleton sets: each is evaluated once)
draw_positions(S, faces, extra) ==
    CHOOSE done \in
        UNION {UNION {{draw_upto(entries, first) : first \in {first_raising(entries)}} :
                          entries \in {draw_entries(board, faces, extra)}} :
                   board \in {S}} : TRUE

\* draw_state(canvas): the display list it leaves, as the items of each
\* draw_hexagon call followed by the items created for each entry of STATE,
\* and what it raises
draw_state(S, faces, extra) ==
    CHOOSE done \in
        {[canvas |-> draw_all_hexagons(extra) \o cubes.items, raised |-> cubes.raised] :
             cubes \in {draw_positions(S, faces, extra)}} : TRUE

(***************************************************************************)
(* Paths (os.path on JERSI_STATE_FILE, lines 171-173 and 1001-1017).       *)
(***************************************************************************)
\* updir/subdir/radix+extension
Path(updir, subdir, radix, extension) ==
    [updir |-> updir, subdir |-> subdir, radix |-> radix, extension |-> extension]

\* JERSI_STATE_FILE as the module sets it (line 173)
DefaultStateFile == Path("jersi_drawer_tk/states", "import", "jersi-state-initial", ".txt")

\* '' : what askopenfilename returns when the dialog is cancelled; also the
\* value of exported while nothing has been exported
NoPath == Path("", "", "", "")

\* the files the user can pick in the dialog
SelectablePaths == {Path("jersi_drawer_tk/states", "import", "position", ".txt")}

(***************************************************************************)
(* The messages of log_variable.                                           *)
(***************************************************************************)
Log(format, args) == [format |-> format, args |-> args]

(***************************************************************************)
(* The handlers.                                                           *)
(***************************************************************************)
\* draw_jersi(), lines 924-926: init_state(), draw_state(main_canvas), then the main loop
draw_jersi ==
    /\ pc = "import"
    /\ \E s \in {init_state(State)} :
           \E d \in {draw_state(s.State, DRAW_CUBE_FACES, DRAW_EXTRA)} :
               /\ State' = s.State
               /\ canvas' = IF s.raised = NoException THEN d.canvas ELSE canvas
               /\ pc' = IF s.raised = NoException /\ d.raised = NoException
                        THEN "mainloop" ELSE "crashed"
    /\ UNCHANGED <<DRAW_CUBE_FACES, DRAW_EXTRA, JERSI_STATE_FILE, log, exported,
                   file_stream, input, output>>

\* toggle_face(canvas, face_value.get(), log_variable): the check button has
\* just flipped face_value, which started equal to DRAW_CUBE_FACES
toggle_face ==
    /\ pc = "mainloop"
    /\ \E draw_cube_faces \in {~DRAW_CUBE_FACES} :
           \E d \in {draw_state(State, draw_cube_faces, DRAW_EXTRA)} :
               /\ DRAW_CUBE_FACES' = draw_cube_faces
               /\ canvas' = d.canvas
               /\ log' = IF d.raised = NoException THEN Log("toggle face done", <<>>)
                         ELSE Log("toggle face ...", <<>>)
    /\ UNCHANGED <<pc, State, DRAW_EXTRA, JERSI_STATE_FILE, exported, file_stream,
                   input, output>>

\* Mutation of toggle_extra: the handler empties the board before it redraws
toggle_extra_clearing ==
    /\ pc = "mainloop"
    /\ \E draw_extra \in {~DRAW_EXTRA} :
           \E d \in {draw_state(reset_state(State), DRAW_CUBE_FACES, draw_extra)} :
               /\ DRAW_EXTRA' = draw_extra
               /\ State' = reset_state(State)
               /\ canvas' = d.canvas
               /\ log' = Log("toggle reserve done", <<>>)
    /\ UNCHANGED <<pc, DRAW_CUBE_FACES, JERSI_STATE_FILE, exported, file_stream,
                   input, output>>

\* toggle_extra(canvas, extra_value.get(), log_variable)
toggle_extra ==
    /\ pc = "mainloop"
    /\ \E draw_extra \in {~DRAW_EXTRA} :
           \E d \in {draw_state(State, DRAW_CUBE_FACES, draw_extra)} :
               /\ DRAW_EXTRA' = draw_extra
               /\ canvas' = d.canvas
               /\ log' = IF d.raised = NoException THEN Log("toggle reserve done", <<>>)
                         ELSE Log("toggle reserve ...", <<>>)
    /\ UNCHANGED <<pc, State, DRAW_CUBE_FACES, JERSI_STATE_FILE, exported, file_stream,
                   input, output>>

\* read_file(canvas, log_variable), file being what open(JERSI_STATE_FILE) finds
read_file(file) ==
    \E r \in {read_state_file(State, file)} :
        \E d \in {IF r.raised = NoException
                   THEN draw_state(r.State, DRAW_CUBE_FACES, DRAW_EXTRA)
                   ELSE [canvas |-> canvas, raised |-> r.raised]} :
            /\ State' = r.State
            /\ file_stream' = file.lines
            /\ canvas' = d.canvas
            /\ log' = IF d.raised = NoException THEN Log("Read done", <<>>)
                      ELSE IF d.raised.type = "JersiError"
                          THEN Log("Read failed: %s !!!", d.raised.message)
                      ELSE Log("Read failed !!!", <<>>)

\* read_selected_file(...): the dialog returns file_name, then read_file
read_selected_file(file_name, file) ==
    /\ pc = "mainloop"
    /\ JERSI_STATE_FILE' = file_name
    /\ read_file(file)
    /\ UNCHANGED <<pc, DRAW_CUBE_FACES, DRAW_EXTRA, exported, input, output>>

\* write_file(canvas, log_variable); inkscape tells whether the converter
\* can be run (subprocess.run raises when it cannot)
write_file(inkscape) ==
    LET extension == jersi_assert(JERSI_STATE_FILE.extension = ".txt",
                       <<"unexpected extension for import file '%s'",
                         JERSI_STATE_FILE.radix \o JERSI_STATE_FILE.extension>>)
        subdir == jersi_assert(JERSI_STATE_FILE.subdir = "import",
                       <<"unexpected import subdir '%s'", JERSI_STATE_FILE.subdir>>)
        state_export_path == Path(JERSI_STATE_FILE.updir, "export", JERSI_STATE_FILE.radix, "")
    IN  /\ pc = "mainloop"
        /\ IF extension # NoException
           THEN /\ log' = Log("Write failed: %s !!!", extension.message)
                /\ exported' = exported
           ELSE IF subdir # NoException
           THEN /\ log' = Log("Write failed: %s !!!", subdir.message)
                /\ exported' = exported
           ELSE /\ exported' = state_export_path
                /\ log' = IF inkscape THEN Log("Write done", <<>>)
                          ELSE Log("Write failed !!!", <<>>)
        /\ UNCHANGED <<pc, State, DRAW_CUBE_FACES, DRAW_EXTRA, JERSI_STATE_FILE, canvas,
                       file_stream, input, output>>

(***************************************************************************)
(* The inputs.                                                             *)
(***************************************************************************)
\* all sequences over S of length at most n
SeqsUpTo(S, n) == UNION {[1..k -> S] : k \in 0..n}

\* the lines the files of Spec are made of
SpecLines ==
    { <<"w", ":", "c", "/", "W", ":", "c", "/", "K", ":", "a", "4", "\n">>,
      <<"w", ":", "c", "/", "W", ":", "c", "/", "k", ":", "c", "\n">>,
      <<"K", ":", "a", "4", "/", "K", ":", "a", "8", "\n">>,
      <<"K", ":", "a", "4", "/", "X", ":", "a", "4", "\n">> }

SpecFiles == SeqsUpTo(SpecLines, MaxLines)

\* the lines the files of LoadSpec are made of
LoadLines ==
    { <<" ", "\n">>,
      <<" ", "#", "K", ":", "a", "4", "\n">>,
      <<"K", ":", "a", "4", "\n">>,
      <<"w", ":", "c", "/", "W", ":", "c", "\n">>,
      <<"k", " ", ":", "c", "\n">>,
      <<"K", ":", "a", "8", "\n">>,
      <<"K", ":", "d", "\n">>,
      <<"X", ":", "a", "4", "\n">>,
      <<"K", ":", "a", "4", "/", "\n">> }

LoadFiles == SeqsUpTo(LoadLines, MaxLoadLines)

\* the characters the lines of ParseSpec are written in, and those lines:
\* with and without a line end
Alphabet == {"K", "f", ":", "4", "0", "/", " ", "#"}

ParseInputs ==
    {body \o end : body \in SeqsUpTo(Alphabet, MaxLineLen), end \in {<<>>, <<"\n">>}}

\* every position the item pattern lets through: a row letter, or a row
\* letter and a column digit
Positions == RowLetters \cup {row \o column : row \in RowLetters, column \in ColumnDigits}

\* the cube labels PushSpec calls set_cube_at_position with
PushCubeLabels == {"K", "w", "M"}

Pending == [type |-> "Pending", message |-> <<>>]

(***************************************************************************)
(* Spec: the program, from its import on.                                  *)
(***************************************************************************)
Init ==
    /\ pc = "import"
    /\ State = <<>>
    /\ DRAW_CUBE_FACES = TRUE
    /\ DRAW_EXTRA = TRUE
    /\ JERSI_STATE_FILE = DefaultStateFile
    /\ log = Log("", <<>>)
    /\ canvas = <<>>
    /\ exported = NoPath
    /\ file_stream = <<>>
    /\ input = None
    /\ output = Pending

\* the Read button, a file picked in the dialog
ReadSelected == \E path \in SelectablePaths, lines \in SpecFiles :
                    read_selected_file(path, File(lines))

\* the Read button, the dialog cancelled: open('') finds no file
ReadCancelled == read_selected_file(NoPath, NoFile)

\* the Write button
Write == \E inkscape \in BOOLEAN : write_file(inkscape)

Next ==
    \/ draw_jersi
    \/ ReadSelected
    \/ ReadCancelled
    \/ toggle_face
    \/ toggle_extra
    \/ Write

Spec == Init /\ [][Next]_vars

(***************************************************************************)
(* LoadSpec: the program, the file on disk drawn once from LoadFiles.      *)
(***************************************************************************)
LoadInit ==
    /\ pc = "import"
    /\ State = <<>>
    /\ DRAW_CUBE_FACES = TRUE
    /\ DRAW_EXTRA = TRUE
    /\ JERSI_STATE_FILE = DefaultStateFile
    /\ log = Log("", <<>>)
    /\ canvas = <<>>
    /\ exported = NoPath
    /\ file_stream = <<>>
    /\ input \in LoadFiles
    /\ output = Pending

ReadInput == \E path \in SelectablePaths : read_selected_file(path, File(input))

LoadNext ==
    \/ draw_jersi
    \/ ReadInput
    \/ toggle_face
    \/ toggle_extra

LoadSpec == LoadInit /\ [][LoadNext]_vars

(***************************************************************************)
(* ParseSpec: the parsing loop of read_state_file on a one-line file.      *)
(***************************************************************************)
ParseInit ==
    /\ pc = "import"
    /\ State = <<>>
    /\ DRAW_CUBE_FACES = TRUE
    /\ DRAW_EXTRA = TRUE
    /\ JERSI_STATE_FILE = DefaultStateFile
    /\ log = Log("", <<>>)
    /\ canvas = <<>>
    /\ exported = NoPath
    /\ file_stream = <<>>
    /\ input \in ParseInputs
    /\ output = [instructions |-> <<>>, raised |-> Pending]

Parse ==
    /\ output.raised = Pending
    /\ output' = read_lines(<<input>>, <<>>)
    /\ UNCHANGED <<pc, State, DRAW_CUBE_FACES, DRAW_EXTRA, JERSI_STATE_FILE, log, canvas,
                   exported, file_stream, input>>

ParseNext == Parse

ParseSpec == ParseInit /\ [][ParseNext]_vars

(***************************************************************************)
(* PushSpec: set_cube_at_position called on one position of a board.       *)
(***************************************************************************)
\* the boards the calls start from: the one init_state leaves and the one
\* reset_state leaves
StartBoards == {init_state(<<>>).State, reset_state(<<>>)}

PushInit ==
    /\ pc = "mainloop"
    /\ State \in StartBoards
    /\ DRAW_CUBE_FACES = TRUE
    /\ DRAW_EXTRA = TRUE
    /\ JERSI_STATE_FILE = DefaultStateFile
    /\ log = Log("", <<>>)
    /\ canvas = draw_state(State, DRAW_CUBE_FACES, DRAW_EXTRA).canvas
    /\ exported = NoPath
    /\ file_stream = <<>>
    /\ \E position_label \in Positions :
           input = [board |-> State, position_label |-> position_label, cube_labels |-> <<>>]
    /\ output = Pending

Push ==
    /\ Len(input.cube_labels) < MaxCalls
    /\ \E cube_label \in PushCubeLabels :
           LET r == set_cube_at_position(State, input.position_label, cube_label)
           IN  /\ State' = r.State
               /\ output' = r.raised
               /\ input' = [input EXCEPT !.cube_labels = Append(@, cube_label)]
    /\ UNCHANGED <<pc, DRAW_CUBE_FACES, DRAW_EXTRA, JERSI_STATE_FILE, log, canvas,
                   exported, file_stream>>

PushNext == Push

PushSpec == PushInit /\ [][PushNext]_vars

(***************************************************************************)
(* Vocabulary of the properties: what a file says, read off its text       *)
(* without running the reader.                                             *)
(***************************************************************************)
\* a line without its whitespace
Ink(line) == SelectSeq(line, LAMBDA ch : ch \notin Whitespace)

\* a line that is neither blank nor a comment: its first character that is
\* no whitespace exists and is not '#'
IsContent(line) == Ink(line) # <<>> /\ Ink(line)[1] # "#"

\* the tokens of the notation: code, colon, row letter, at most one column digit
ValidTokens ==
    {<<code, ":", row>> : code \in CubeLetters, row \in RowLetters}
        \cup {<<code, ":", row, column>> :
                  code \in CubeLetters, row \in RowLetters, column \in ColumnDigits}

\* the fragments of a text between its '/': <<i, j>> stands for text[i..j],
\* and j = i - 1 for an empty fragment
Fragments(text) ==
    {f \in (1..(Len(text) + 1)) \X (0..Len(text)) :
        /\ f[2] >= f[1] - 1
        /\ f[1] = 1 \/ text[f[1] - 1] = "/"
        /\ f[2] = Len(text) \/ text[f[2] + 1] = "/"
        /\ \A k \in f[1]..f[2] : text[k] # "/"}

\* the fragments of a file: <<k, i, j>> is the fragment i..j of line k
Occurrences(file) ==
    UNION {{<<k, f[1], f[2]>> : f \in Fragments(Ink(file[k]))} :
               k \in {n \in 1..Len(file) : IsContent(file[n])}}

FragmentText(file, o) == SubSeq(Ink(file[o[1]]), o[2], o[3])

\* file order: lines top to bottom, fragments left to right
Before(o1, o2) == o1[1] < o2[1] \/ (o1[1] = o2[1] /\ o1[2] < o2[2])

Earliest(occurrences) == CHOOSE o \in occurrences : \A p \in occurrences : ~Before(p, o)

\* the label a fragment names (what follows its colon) and the piece it names
PositionOf(file, o) ==
    LET text == FragmentText(file, o) IN join(SubSeq(text, 3, Len(text)))

PieceOf(file, o) ==
    LET text == FragmentText(file, o)
    IN  IF text # <<>> /\ text[1] \in DOMAIN CUBE_COLORED_TYPES
        THEN CUBE_COLORED_TYPES[text[1]] ELSE None

\* the stack that pushing the fragments `occurrences` in file order builds on
\* an empty cell `label`: the earliest at the bottom, the next on top
ExpectedStack(file, occurrences, label) ==
    LET here == {o \in occurrences : PositionOf(file, o) = label}
        nth(n) == CHOOSE o \in here : Cardinality({p \in here : Before(p, o)}) = n - 1
    IN  <<IF Cardinality(here) >= 1 THEN PieceOf(file, nth(1)) ELSE None,
          IF Cardinality(here) >= 2 THEN PieceOf(file, nth(2)) ELSE None>>

\* the number of pieces on a board, and of those satisfying a test on
\* (label, piece)
Pieces(S) == {<<label, k>> \in (DOMAIN S) \X {1, 2} : S[label][k] # None}

\* the log shows the outcome of a load
ReadDone == log = Log("Read done", <<>>)

ReadFailed == log.format \in {"Read failed: %s !!!", "Read failed !!!"}

\* a file picked in the dialog has been read
Loaded == JERSI_STATE_FILE \in SelectablePaths

Empty == <<None, None>>

(***************************************************************************)
(* C1.  The claim: when a load fails with a validation error (malformed    *)
(* token, unknown position, third piece on a cell), STATE is, label by     *)
(* label, what it was before the load.  A load of a file that was found    *)
(* fails only with a validation error, so the claim says that every step   *)
(* that ends such a load with "Read failed" leaves STATE as it was.        *)
(* The code does not do this: read_state_file resets STATE before it       *)
(* reads the file.                                                         *)
(***************************************************************************)
C1_FailedLoadKeepsState ==
    [][(ReadFailed' /\ Loaded') => State' = State]_vars

(***************************************************************************)
(* C2.  The claim: for every registered label whose stack is empty, two    *)
(* successive set_cube_at_position calls succeed and the third fails with  *)
(* a JersiError carrying the "No room" text, leaving the first two pieces  *)
(* in place in their order and every other label unchanged.  The code      *)
(* raises a str there, which Python turns into a TypeError.                *)
(***************************************************************************)
C2_ThirdPushFailsWithNoRoom ==
    LET label == input.position_label
        calls == input.cube_labels
        piece(n) == CUBE_COLORED_TYPES[calls[n]]
    IN  (label \in Labels /\ input.board[label] = Empty /\ calls # <<>>) =>
            /\ \A other \in Labels \ {label} : State[other] = input.board[other]
            /\ Len(calls) = 1 => output = NoException /\ State[label] = <<piece(1), None>>
            /\ Len(calls) = 2 => output = NoException /\ State[label] = <<piece(1), piece(2)>>
            /\ Len(calls) >= 3 =>
                   /\ output = JersiError(<<"No room for cube '%s' at position '%s' !!!",
                                            calls[Len(calls)], label>>)
                   /\ State[label] = <<piece(1), piece(2)>>

(***************************************************************************)
(* C3.  If a fragment of the file fails the token pattern, the load        *)
(* reports the first such fragment (in file order) together with its line  *)
(* stripped of whitespace, and no token of the file is applied: every      *)
(* stack is empty, also when well-formed tokens precede the bad one.       *)
(***************************************************************************)
Malformed(file) == {o \in Occurrences(file) : FragmentText(file, o) \notin ValidTokens}

C3_MalformedTokenAppliesNothing ==
    (Loaded /\ Malformed(file_stream) # {}) =>
        LET bad == Earliest(Malformed(file_stream))
        IN  /\ \A label \in Labels : State[label] = Empty
            /\ ~ReadDone
            /\ ReadFailed =>
                   log = Log("Read failed: %s !!!",
                             <<"wrong item '%s' in line '%s'",
                               join(FragmentText(file_stream, bad)),
                               join(Ink(file_stream[bad[1]]))>>)

\* a load has failed on a malformed token that follows a well-formed one
C3_Witness ==
    /\ Loaded
    /\ ReadFailed
    /\ \E bad \in Malformed(file_stream) :
           \E o \in Occurrences(file_stream) \ Malformed(file_stream) : Before(o, bad)

(***************************************************************************)
(* C4.  After a successful load the stack of every label is the one built  *)
(* by pushing the file's tokens in file order on empty cells: of two       *)
(* tokens for one label the earlier is in slot 0, the later in slot 1.     *)
(***************************************************************************)
C4_LoadFollowsFileOrder ==
    ReadDone =>
        /\ DOMAIN State = Labels
        /\ \A label \in Labels :
               State[label] = ExpectedStack(file_stream, Occurrences(file_stream), label)

\* a load has succeeded that put two different pieces on one cell
C4_Witness ==
    /\ ReadDone
    /\ \E label \in Labels :
           /\ State[label][2] # None
           /\ State[label][1] # State[label][2]

(***************************************************************************)
(* C5.  After a successful load, whatever was loaded or set up before,     *)
(* the board holds exactly the pieces the file's tokens name: every piece  *)
(* on a label is named by a token for that label, every token's piece is   *)
(* on its label, and there are as many pieces as tokens.                   *)
(***************************************************************************)
C5_LoadLeavesOnlyFilePieces ==
    ReadDone =>
        LET tokens == Occurrences(file_stream)
        IN  /\ \A at \in Pieces(State) :
                   \E o \in tokens : /\ PositionOf(file_stream, o) = at[1]
                                     /\ PieceOf(file_stream, o) = State[at[1]][at[2]]
            /\ \A o \in tokens :
                   \E at \in Pieces(State) : /\ PositionOf(file_stream, o) = at[1]
                                             /\ PieceOf(file_stream, o) = State[at[1]][at[2]]
            /\ Cardinality(Pieces(State)) = Cardinality(tokens)

\* a load has succeeded on a board that was not empty, with a file that
\* leaves a cell empty which held a piece before
C5_Witness ==
    /\ ReadDone
    /\ Pieces(State) # {}
    /\ State["i4"] = Empty

(***************************************************************************)
(* C6.  A well-formed token whose position is no registered label makes    *)
(* the load fail with "no hexagon at label" naming that position, and the  *)
(* push changes no stack: the board is the one built by the tokens that    *)
(* precede it.  (Stated for files with no malformed fragment, and with no  *)
(* third piece on a cell before the token: those fail earlier.)            *)
(***************************************************************************)
Unknown(file) == {o \in Occurrences(file) : PositionOf(file, o) \notin Labels}

C6_UnknownPositionFailsLoad ==
    (Loaded /\ Malformed(file_stream) = {} /\ Unknown(file_stream) # {}) =>
        LET unknown == Earliest(Unknown(file_stream))
            before == {o \in Occurrences(file_stream) : Before(o, unknown)}
            room == \A label \in Labels :
                        Cardinality({o \in before : PositionOf(file_stream, o) = label}) <= 2
        IN  room =>
                /\ \A label \in Labels :
                       State[label] = ExpectedStack(file_stream, before, label)
                /\ ~ReadDone
                /\ ReadFailed =>
                       log = Log("Read failed: %s !!!",
                                 <<"no hexagon at label '%s'", PositionOf(file_stream, unknown)>>)

\* a load has failed on the position 'd', after a token that was applied
C6_Witness ==
    /\ Loaded
    /\ log = Log("Read failed: %s !!!", <<"no hexagon at label '%s'", "d">>)
    /\ Pieces(State) # {}

(***************************************************************************)
(* C7.  Once the window is up, every registered label has a stack of 0, 1  *)
(* or 2 pieces stored bottom-first (slot 1 is occupied only if slot 0 is), *)
(* and a set_cube_at_position call made on the board, whatever its         *)
(* position, keeps every piece in its slot; it either puts its piece in a  *)
(* free slot of its position or raises and leaves the board as it was.     *)
(***************************************************************************)
IsPiece(slot) == slot \in CubeType \X CubeColor

C7_StacksKeepTheirPieces ==
    pc = "mainloop" =>
        /\ DOMAIN State = Labels
        /\ \A label \in Labels :
               /\ State[label][1] = None \/ IsPiece(State[label][1])
               /\ State[label][2] = None \/ IsPiece(State[label][2])
               /\ State[label][2] # None => State[label][1] # None
        /\ \A position \in Positions, cube \in PushCubeLabels :
               \E r \in {set_cube_at_position(State, position, cube)} :
                   /\ \A label \in Labels :
                          /\ State[label][1] # None => r.State[label][1] = State[label][1]
                          /\ State[label][2] # None => r.State[label][2] = State[label][2]
                   /\ r.raised = NoException =>
                          \E k \in {1, 2} : /\ State[position][k] = None
                                            /\ r.State[position][k] = CUBE_COLORED_TYPES[cube]
                   /\ r.raised # NoException => r.State = State

\* a board with a full stack, a stack of one and an empty stack
C7_Witness ==
    /\ pc = "mainloop"
    /\ \E full, single, free \in Labels :
           /\ State[full][2] # None
           /\ State[single][1] # None /\ State[single][2] = None
           /\ State[free] = Empty

(***************************************************************************)
(* C8.  The claim: a load shows "Read done" only if every token of the     *)
(* file was applied and a "Read failed" message otherwise, and the         *)
(* message of a load that failed on a validation error carries that        *)
(* error's text.  The code shows the bare "Read failed !!!" for a third    *)
(* piece on a cell, because what set_cube_at_position raises there is no   *)
(* JersiError (see C2).                                                    *)
(***************************************************************************)
C8_FailedLoadTellsWhy ==
    Loaded =>
        /\ ReadDone => /\ Malformed(file_stream) = {}
                       /\ Cardinality(Pieces(State)) = Cardinality(Occurrences(file_stream))
        /\ ReadFailed => log.format = "Read failed: %s !!!" /\ log.args # <<>>

(***************************************************************************)
(* C9.  The claim: init_state yields 44 pieces, two home ranks of 16 and   *)
(* 6 reserve pieces per colour, no push failing.  The code places 42: the  *)
(* home ranks hold 15 pieces each.                                         *)
(***************************************************************************)
\* the window is up and nothing has been loaded: the board is init_state's
AfterSetup == pc = "mainloop" /\ JERSI_STATE_FILE = DefaultStateFile

OnBoard(S, color) ==
    {at \in Pieces(S) : ~HexagonAt(at[1]).is_extra /\ S[at[1]][at[2]][2] = color}

InReserve(S, color) ==
    {at \in Pieces(S) : HexagonAt(at[1]).is_extra /\ S[at[1]][at[2]][2] = color}

C9_SetupHas44Pieces ==
    /\ pc # "crashed"
    /\ AfterSetup =>
           /\ Cardinality(Pieces(State)) = 44
           /\ \A color \in CubeColor : /\ Cardinality(OnBoard(State, color)) = 16
                                       /\ Cardinality(InReserve(State, color)) = 6

\* amended: 42 pieces, two home ranks of 15 and 6 reserve pieces per colour
C9_SetupHas42Pieces ==
    /\ pc # "crashed"
    /\ AfterSetup =>
           /\ Cardinality(Pieces(State)) = 42
           /\ \A color \in CubeColor : /\ Cardinality(OnBoard(State, color)) = 15
                                       /\ Cardinality(InReserve(State, color)) = 6

\* init_state has run
C9_Witness == AfterSetup /\ Pieces(State) # {}

(***************************************************************************)
(* C10.  A line that is neither blank nor a comment is accepted if and     *)
(* only if, once all its whitespace is removed, every fragment between     *)
(* its '/' is a token: one code, a colon, a row letter and at most one     *)
(* digit 1-9.  Anything else (an empty fragment, a '#' after a token, a    *)
(* digit 0, a second digit) is refused as a wrong item.  An accepted line  *)
(* gives one instruction per fragment.                                     *)
(***************************************************************************)
C10_LineAcceptedIffAllTokens ==
    (output.raised # Pending /\ IsContent(input)) =>
        LET text == Ink(input)
            tokens == \A f \in Fragments(text) : SubSeq(text, f[1], f[2]) \in ValidTokens
        IN  /\ output.raised = NoException <=> tokens
            /\ output.raised = NoException =>
                   Len(output.instructions) = Cardinality(Fragments(text))
            /\ output.raised # NoException =>
                   /\ output.raised.type = "JersiError"
                   /\ output.raised.message[1] = "wrong item '%s' in line '%s'"

\* a token written with whitespace inside has been accepted
C10_Witness ==
    /\ input = <<"K", " ", ":", "f">>
    /\ output = [instructions |-> << <<<<"K">>, <<"f">>>> >>, raised |-> NoException]

(***************************************************************************)
(* C11.  A file made only of blank lines, whitespace-only lines and lines  *)
(* whose first character that is no whitespace is '#', the empty file      *)
(* included, loads without error and leaves every registered label with    *)
(* an empty stack.                                                         *)
(***************************************************************************)
OnlyBlankOrComment(file) == \A k \in 1..Len(file) : ~IsContent(file[k])

C11_BlankAndCommentFileLoadsEmpty ==
    (Loaded /\ OnlyBlankOrComment(file_stream)) =>
        /\ ~ReadFailed
        /\ read_state_file(State, File(file_stream)).raised = NoException
        /\ DOMAIN State = Labels
        /\ \A label \in Labels : State[label] = Empty

\* a file of one blank line and one comment line has been loaded, after the
\* setup had put its pieces on the board
C11_Witness ==
    /\ Loaded
    /\ ReadDone
    /\ file_stream = << <<" ", "\n">>, <<" ", "#", "K", ":", "a", "4", "\n">> >>
    /\ Pieces(State) = {}

(***************************************************************************)
(* AddSpec: Hexagon.add called once on the registry as it stands after     *)
(* some of the module-level calls of lines 309-412.                        *)
(***************************************************************************)
\* the registries the import goes through: Hexagon.alls after the first k calls
ImportRegistries ==
    {RunTable(<<>>, SubSeq(HexagonTable, 1, k)).alls : k \in 0..Len(HexagonTable)}

\* the calls made on them: those of the table, and calls with a label of the
\* table or a new label, with and without consistent is_extra and extra_shift
AddCalls ==
    {HexagonTable[i] : i \in 1..Len(HexagonTable)}
        \cup {Hexagon(label, <<0, 0>>, "MAIN", is_extra, extra_shift) :
                  label \in {"a1", "a", "z9", "z"},
                  is_extra \in BOOLEAN,
                  extra_shift \in {None, <<1, 0>>}}

AddInit ==
    /\ pc = "import"
    /\ State = <<>>
    /\ DRAW_CUBE_FACES = TRUE
    /\ DRAW_EXTRA = TRUE
    /\ JERSI_STATE_FILE = DefaultStateFile
    /\ log = Log("", <<>>)
    /\ canvas = <<>>
    /\ exported = NoPath
    /\ file_stream = <<>>
    /\ \E alls \in ImportRegistries, call \in AddCalls :
           input = [alls |-> alls, call |-> call]
    /\ output = [alls |-> <<>>, raised |-> Pending]

Add ==
    /\ output.raised = Pending
    /\ output' = Hexagon_add(input.alls, input.call)
    /\ UNCHANGED <<pc, State, DRAW_CUBE_FACES, DRAW_EXTRA, JERSI_STATE_FILE, log, canvas,
                   exported, file_stream, input>>

AddNext == Add

AddSpec == AddInit /\ [][AddNext]_vars

(***************************************************************************)
(* C12.  The claim: Hexagon.add with a label already registered fails and  *)
(* leaves the registry as it was; with a new label it inserts exactly that *)
(* one cell; after the startup table every label maps to exactly one cell  *)
(* and the table itself never triggers the duplicate failure.  The code    *)
(* has a second way to fail: with a new label, Hexagon.__init__ refuses    *)
(* an is_extra that does not agree with extra_shift, and nothing is        *)
(* inserted.                                                               *)
(***************************************************************************)
\* the cells of a registry, and the cells registered under a label
Cells(alls) == {alls[i] : i \in 1..Len(alls)}

CellsAt(alls, label) == {i \in 1..Len(alls) : alls[i].label = label}

Registered(alls, label) == CellsAt(alls, label) # {}

\* the registry `after` is `before` with the one cell h more
InsertedOnly(before, after, h) ==
    /\ Len(after) = Len(before) + 1
    /\ Cells(after) = Cells(before) \cup {h}
    /\ \A i \in 1..Len(before) : after[i] = before[i]

\* the table ran to its end without raising and gave every label one cell
StartupTableIsClean ==
    /\ RunTable(<<>>, HexagonTable).raised = NoException
    /\ Len(Hexagon_alls) = Len(HexagonTable)
    /\ \A label \in Labels : Cardinality(CellsAt(Hexagon_alls, label)) = 1
    /\ \A i \in 1..Len(HexagonTable) : Cardinality(CellsAt(HexagonTable, HexagonTable[i].label)) = 1

C12_AddInsertsUnlessDuplicate ==
    /\ StartupTableIsClean
    /\ output.raised # Pending =>
           IF Registered(input.alls, input.call.label)
           THEN output.raised # NoException /\ output.alls = input.alls
           ELSE /\ output.raised = NoException
                /\ InsertedOnly(input.alls, output.alls, input.call)

\* amended: a new label is inserted only if is_extra agrees with extra_shift
Consistent(h) == h.is_extra = (h.extra_shift # None)

C12_AddInsertsUnlessDuplicateOrInconsistent ==
    /\ StartupTableIsClean
    /\ output.raised # Pending =>
           IF Registered(input.alls, input.call.label)
           THEN /\ output.raised = JersiError(<<"no hexagon with label '%s'",
                                                input.call.label>>)
                /\ output.alls = input.alls
           ELSE IF Consistent(input.call)
           THEN /\ output.raised = NoException
                /\ InsertedOnly(input.alls, output.alls, input.call)
           ELSE /\ output.raised.type = "JersiError"
                /\ output.raised.message[1] =
                       "is_extra and extra_shift not consisten for label '%s'"
                /\ output.alls = input.alls

\* Hexagon.add has refused the label 'a' on the registry of the whole table
C12_Witness ==
    /\ Len(input.alls) = Len(HexagonTable)
    /\ input.call = Hexagon("a", <<0, 0>>, "MAIN", TRUE, <<1, 0>>)
    /\ output = [alls |-> input.alls,
                 raised |-> JersiError(<<"no hexagon with label '%s'", "a">>)]

(***************************************************************************)
(* DecodeSpec: the lookup CUBE_COLORED_TYPES[cube_label] of lines 1165 and *)
(* 1168, made for two cube labels.                                         *)
(***************************************************************************)
\* the cube labels looked up: the codes of the item pattern and two letters
\* that are no code
DecodeLabels == CubeLetters \cup {"X", "x"}

DecodeInit ==
    /\ pc = "import"
    /\ State = <<>>
    /\ DRAW_CUBE_FACES = TRUE
    /\ DRAW_EXTRA = TRUE
    /\ JERSI_STATE_FILE = DefaultStateFile
    /\ log = Log("", <<>>)
    /\ canvas = <<>>
    /\ exported = NoPath
    /\ file_stream = <<>>
    /\ input \in DecodeLabels \X DecodeLabels
    /\ output = [pieces |-> <<None, None>>, raised |-> Pending]

\* the two lookups in turn: a missing key raises KeyError and ends the run
Decode ==
    /\ output.raised = Pending
    /\ output' =
           IF input[1] \notin DOMAIN CUBE_COLORED_TYPES
           THEN [pieces |-> <<None, None>>, raised |-> KeyError(input[1])]
           ELSE IF input[2] \notin DOMAIN CUBE_COLORED_TYPES
           THEN [pieces |-> <<CUBE_COLORED_TYPES[input[1]], None>>,
                 raised |-> KeyError(input[2])]
           ELSE [pieces |-> <<CUBE_COLORED_TYPES[input[1]], CUBE_COLORED_TYPES[input[2]]>>,
                 raised |-> NoException]
    /\ UNCHANGED <<pc, State, DRAW_CUBE_FACES, DRAW_EXTRA, JERSI_STATE_FILE, log, canvas,
                   exported, file_stream, input>>

DecodeNext == Decode

DecodeSpec == DecodeInit /\ [][DecodeNext]_vars

(***************************************************************************)
(* C13.  The code-to-piece table is a bijection between the 14 codes and   *)
(* the 14 (kind, colour) pairs: an uppercase code gives WHITE, a lowercase *)
(* code gives BLACK, a code and its other-case form give the same kind,    *)
(* and that kind is the one whose letter is the code's uppercase form.     *)
(***************************************************************************)
UpperCodes == {"K", "F", "R", "P", "S", "M", "W"}

LowerCodes == {"k", "f", "r", "p", "s", "m", "w"}

\* the uppercase form of a code
UpperOf(code) ==
    IF code \in UpperCodes THEN code
    ELSE CHOOSE upper \in UpperCodes : str_lower[upper] = code

\* the kind whose letter is `letter`
KindOf(letter) == CHOOSE kind \in CubeType : CubeTypeValue[kind] = letter

C13_CodesAndPiecesAreInBijection ==
    /\ DOMAIN CUBE_COLORED_TYPES = UpperCodes \cup LowerCodes
    /\ {CUBE_COLORED_TYPES[code] : code \in DOMAIN CUBE_COLORED_TYPES} = CubeType \X CubeColor
    /\ Cardinality(DOMAIN CUBE_COLORED_TYPES) = 14
    /\ Cardinality(CubeType \X CubeColor) = 14
    /\ (output.raised # Pending
            /\ input[1] \in UpperCodes \cup LowerCodes
            /\ input[2] \in UpperCodes \cup LowerCodes) =>
           /\ output.raised = NoException
           /\ input[1] # input[2] => output.pieces[1] # output.pieces[2]
           /\ \A i \in {1, 2} :
                  /\ output.pieces[i][1] = KindOf(UpperOf(input[i]))
                  /\ input[i] \in UpperCodes => output.pieces[i][2] = "WHITE"
                  /\ input[i] \in LowerCodes => output.pieces[i][2] = "BLACK"
           /\ UpperOf(input[1]) = UpperOf(input[2]) =>
                  output.pieces[1][1] = output.pieces[2][1]

\* 'W' and 'w' have been looked up: the white and the black wise
C13_Witness ==
    /\ input = <<"W", "w">>
    /\ output = [pieces |-> << <<"WISE", "WHITE">>, <<"WISE", "BLACK">> >>,
                 raised |-> NoException]

(***************************************************************************)
(* C14.  STATE is changed only by reset_state and set_cube_at_position,    *)
(* reached through init_state or a load: a step of toggle_face,            *)
(* toggle_extra or write_file leaves every stack as it was; and within     *)
(* one setup or load, after the reset, no piece leaves the slot it was     *)
(* put in (each call adds at most its own piece, on top).                  *)
(***************************************************************************)
\* the instructions read_state_file applies for a file: those of all its
\* lines, or none when an item is wrong
InstructionsOf(file) ==
    CHOOSE done \in
        {IF parsed.raised # NoException THEN <<>>
         ELSE [i \in 1..Len(parsed.instructions) |-> AsStrings(parsed.instructions[i])] :
             parsed \in {read_lines(file, <<>>)}} : TRUE

\* the board b holds every piece of the board a, each in its slot
Keeps(a, b) ==
    \A label \in DOMAIN a, slot \in {1, 2} :
        a[label][slot] # None => (label \in DOMAIN b /\ b[label][slot] = a[label][slot])

\* the boards the run of the instructions goes through after the reset of S,
\* one per call: each keeps the pieces of the one before and holds at most
\* one piece more, and the last one is `last`
GrowsOnly(S, instructions, last) ==
    \E board \in {[k \in 0..Len(instructions) |->
                       set_cubes(reset_state(S), SubSeq(instructions, 1, k)).State]} :
        /\ Pieces(board[0]) = {}
        /\ \A k \in 1..Len(instructions) :
               /\ Keeps(board[k - 1], board[k])
               /\ Cardinality(Pieces(board[k])) <= Cardinality(Pieces(board[k - 1])) + 1
        /\ board[Len(instructions)] = last

IsSetupStep == pc = "import" /\ pc' # "import"

IsLoadStep == pc = "mainloop" /\ (ReadDone' \/ ReadFailed')

C14_OnlySetupAndLoadChangeState ==
    [][/\ State' # State => (IsSetupStep \/ IsLoadStep)
       /\ DRAW_CUBE_FACES' # DRAW_CUBE_FACES => State' = State
       /\ DRAW_EXTRA' # DRAW_EXTRA => State' = State
       /\ exported' # exported => State' = State
       /\ log'.format \in {"Write done", "Write failed !!!", "Write failed: %s !!!"} =>
              State' = State
       /\ IsSetupStep => GrowsOnly(State, InitCalls, State')
       /\ (IsLoadStep /\ file_stream' # <<>>) =>
              GrowsOnly(State, InstructionsOf(file_stream'), State')]_vars

\* the board of a loaded file has been through a toggle of the reserve
C14_Witness ==
    /\ Loaded
    /\ log = Log("toggle reserve done", <<>>)
    /\ Pieces(State) # {}
    /\ file_stream # <<>>

(***************************************************************************)
(* CenterSpec: the centre of a cell of the registry, as draw_hexagon and   *)
(* draw_cube compute it, and the centre of a cell at the same coordinates  *)
(* with another extra_shift.                                               *)
(***************************************************************************)
\* the extra_shift values of the table, and None
TableShifts == {None} \cup {Hexagon_alls[i].extra_shift : i \in 1..Len(Hexagon_alls)}

CenterInit ==
    /\ pc = "import"
    /\ State = <<>>
    /\ DRAW_CUBE_FACES = TRUE
    /\ DRAW_EXTRA = TRUE
    /\ JERSI_STATE_FILE = DefaultStateFile
    /\ log = Log("", <<>>)
    /\ canvas = <<>>
    /\ exported = NoPath
    /\ file_stream = <<>>
    /\ \E i \in 1..Len(Hexagon_alls), other_shift \in TableShifts :
           input = [hexagon |-> Hexagon_alls[i], other_shift |-> other_shift]
    /\ output = [center |-> None, other |-> None, polygon |-> None, cube |-> None,
                 raised |-> Pending]

\* the centre by lines 710-715, for the cell and for the other extra_shift;
\* the centre of the polygon draw_hexagon creates for the cell, and the centre
\* of the rectangle draw_cube creates for a single white king on it
Center ==
    /\ output.raised = Pending
    /\ \E h \in {input.hexagon} :
           \E cube \in {draw_cube(h.label, "SINGLE", "WHITE", "KING", TRUE, TRUE)} :
               output' =
                   [center |-> hexagon_center(h.position_uv, h.extra_shift),
                    other |-> hexagon_center(h.position_uv, input.other_shift),
                    polygon |-> draw_hexagon(h.position_uv, h.color, h.label, h.is_extra,
                                             h.extra_shift, TRUE)[1].center,
                    cube |-> cube.items[1].center,
                    raised |-> cube.raised]
    /\ UNCHANGED <<pc, State, DRAW_CUBE_FACES, DRAW_EXTRA, JERSI_STATE_FILE, log, canvas,
                   exported, file_stream, input>>

CenterNext == Center

CenterSpec == CenterInit /\ [][CenterNext]_vars

(***************************************************************************)
(* C15.  The centre of a cell is ORIGIN + HEXA_WIDTH*(u*UNIT_U +           *)
(* v*UNIT_V), plus extra_shift when there is one: it depends on nothing    *)
(* but the coordinates and the extra_shift; two cells at the same          *)
(* coordinates differ in their centres by the difference of their          *)
(* extra_shift; draw_hexagon and draw_cube compute the same centre for     *)
(* the same cell.  (The plane arithmetic of this module is exact.)         *)
(***************************************************************************)
\* an extra_shift as a vector: the null vector when there is none
ShiftVector(extra_shift) == IF extra_shift = None THEN <<0, 0>> ELSE extra_shift

Items(c) == UNION {{<<g, i>> : i \in 1..Len(c[g])} : g \in 1..Len(c)}

ItemsAt(c, label) ==
    UNION {{<<grp, idx>> : idx \in {n \in 1..Len(c[grp]) : c[grp][n].key = label}} :
               grp \in 1..Len(c)}

\* the rectangles drawn for the pieces of a cell
RectanglesAt(c, label) ==
    {at \in ItemsAt(c, label) : c[at[1]][at[2]].item = "rectangle"}

\* the reserve cells, and the number of pieces of a stack
ReserveLabels == {label \in Labels : HexagonAt(label).is_extra}

Height(stack) == Cardinality({k \in {1, 2} : stack[k] # None})

\* a group of items without those of the reserve cells
WithoutReserve(group) == SelectSeq(group, LAMBDA it : it.key \notin ReserveLabels)

(***************************************************************************)
(* C16.  A step that switches the reserve option leaves STATE as it was.   *)
(* When it switches the option off, the canvas holds no item at all for a  *)
(* reserve cell (no polygon, no rectangle, no face) and, for the other     *)
(* cells, the items the rendering with the option on has for them, in the  *)
(* same order; when it switches the option on, the pieces stacked on the   *)
(* reserve cells are drawn again, one rectangle each.                      *)
(***************************************************************************)
C16_ReserveOffDrawsNoReserveItem ==
    [][DRAW_EXTRA' # DRAW_EXTRA =>
          /\ State' = State
          /\ DRAW_CUBE_FACES' = DRAW_CUBE_FACES
          /\ ~DRAW_EXTRA' =>
                 \E on \in {draw_state(State', DRAW_CUBE_FACES', TRUE).canvas} :
                     /\ \A label \in ReserveLabels : ItemsAt(canvas', label) = {}
                     /\ Len(canvas') = Len(on)
                     /\ \A g \in 1..Len(on) : canvas'[g] = WithoutReserve(on[g])
                     /\ \E g \in 1..Len(on) : on[g] # WithoutReserve(on[g])
          /\ DRAW_EXTRA' =>
                 \A label \in ReserveLabels :
                     /\ Cardinality(RectanglesAt(canvas', label)) = Height(State'[label])
                     /\ \E at \in ItemsAt(canvas', label) :
                            canvas'[at[1]][at[2]].item = "polygon"]_vars

\* the reserve has been switched off while pieces are stacked on reserve
\* cells: the canvas shows none of them, the board still holds them
C16_Witness ==
    /\ pc = "mainloop"
    /\ ~DRAW_EXTRA
    /\ log = Log("toggle reserve done", <<>>)
    /\ \E label \in ReserveLabels : Height(State[label]) = 2 /\ ItemsAt(canvas, label) = {}

(***************************************************************************)
(* C17: the rectangles of a stack.                                         *)
(***************************************************************************)
\* the cells draw_cube draws on, for a value of DRAW_EXTRA
DrawnLabels(extra) == {label \in Labels : extra \/ ~HexagonAt(label).is_extra}

\* the items created by the draw_cube calls (the groups after those of
\* draw_all_hexagons) for a cell, around a centre, that are not the rectangle
Marks(c, label, center) ==
    {c[at[1]][at[2]] : at \in {a \in ItemsAt(c, label) :
                                  /\ a[1] > Len(Hexagon_alls)
                                  /\ c[a[1]][a[2]].item # "rectangle"
                                  /\ c[a[1]][a[2]].center = center}}

\* a rectangle and its marks show a piece <<kind, colour>>: the fill is the
\* colour of the piece; with faces the mark is the face of the kind (none
\* for the king), without faces it is the letter of the kind, upper case
\* for white and lower case for black
Shows(c, rectangle, piece, faces) ==
    \E marks \in {Marks(c, rectangle.key, rectangle.center)},
       ink \in {IF piece[2] = "WHITE" THEN "black" ELSE "white"} :
        /\ rectangle.fill = (IF piece[2] = "WHITE" THEN "white" ELSE "black")
        /\ \A m \in marks : m.fill = ink
        /\ IF faces
           THEN /\ \A m \in marks : m.item = "face" /\ m.drawer = FACE_DRAWERS[piece[1]]
                /\ Cardinality(marks) = (IF piece[1] = "KING" THEN 0 ELSE 1)
           ELSE /\ \A m \in marks :
                       /\ m.item = "text"
                       /\ m.text = (IF piece[2] = "WHITE" THEN CubeTypeValue[piece[1]]
                                    ELSE str_lower[CubeTypeValue[piece[1]]])
                /\ Cardinality(marks) = 1

\* C17: in the rendering of the current state, every drawn cell has as many
\* piece rectangles as its stack holds pieces: none for an empty stack; one
\* SINGLE rectangle on the hexagon centre for one piece; for two pieces a
\* TOP rectangle above the centre showing the piece of slot 1 and a BOTTOM
\* rectangle below it showing the piece of slot 0, each with the fill and
\* the kind of its own piece
C17_RectanglesFollowTheStack ==
    \E c \in {draw_state(State, DRAW_CUBE_FACES, DRAW_EXTRA).canvas} :
        \A label \in DrawnLabels(DRAW_EXTRA) \cap DOMAIN State :
            \E stack \in {State[label]},
               center \in {hexagon_center(HexagonAt(label).position_uv,
                                          HexagonAt(label).extra_shift)},
               at \in {RectanglesAt(c, label)} :
              \E rectangles \in {{c[a[1]][a[2]] : a \in at}} :
                /\ Cardinality(at) = Height(stack)
                /\ Height(stack) = 1 =>
                       \E r \in rectangles :
                           /\ r.config = "SINGLE"
                           /\ r.center = center
                           /\ Shows(c, r, stack[1], DRAW_CUBE_FACES)
                /\ Height(stack) = 2 =>
                       \E top, bottom \in rectangles :
                           /\ top.config = "TOP"
                           /\ top.center[1] = center[1]
                           /\ top.center[2] > center[2]
                           /\ Shows(c, top, stack[2], DRAW_CUBE_FACES)
                           /\ bottom.config = "BOTTOM"
                           /\ bottom.center[1] = center[1]
                           /\ bottom.center[2] < center[2]
                           /\ Shows(c, bottom, stack[1], DRAW_CUBE_FACES)

\* a picture just drawn of a state with an empty cell, a one-piece stack and
\* a two-piece stack of two different pieces, all on drawn cells
C17_Witness ==
    /\ pc = "mainloop"
    /\ canvas = draw_state(State, DRAW_CUBE_FACES, DRAW_EXTRA).canvas
    /\ \E empty, single, double \in DrawnLabels(DRAW_EXTRA) :
           /\ Height(State[empty]) = 0
           /\ Height(State[single]) = 1
           /\ Height(State[double]) = 2
           /\ State[double][1] # State[double][2]

(***************************************************************************)
(* C18: every piece of a reachable state can be drawn.                     *)
(***************************************************************************)
\* the faces drawn on a cell
FacesAt(c, label) == {at \in ItemsAt(c, label) : c[at[1]][at[2]].item = "face"}

\* the pieces of a stack whose face function creates something
FacedSlots(stack) == {k \in {1, 2} : stack[k] # None /\ stack[k][1] # "KING"}

\* C18: in every state reached through init_state and loads, every piece has
\* a kind with an entry in FACE_DRAWERS and a colour that is BLACK or WHITE;
\* so draw_state, under any value of the two options, raises neither a
\* KeyError nor "not a CubeColor", the program never stops on a drawing, and
\* with the faces on every drawn piece but the king has its face
C18_EveryPieceCanBeDrawn ==
    /\ pc # "crashed"
    /\ \A at \in Pieces(State) :
           /\ State[at[1]][at[2]][1] \in DOMAIN FACE_DRAWERS
           /\ State[at[1]][at[2]][2] \in CubeColor
    /\ \A faces, extra \in BOOLEAN :
           \E d \in {draw_state(State, faces, extra)} :
               /\ d.raised = NoException
               /\ faces =>
                      \A label \in DrawnLabels(extra) \cap DOMAIN State :
                          Cardinality(FacesAt(d.canvas, label)) =
                              Cardinality(FacedSlots(State[label]))

\* a successful load has just been drawn with the faces on: a king is on the
\* picture without a face, another piece with its face
C18_Witness ==
    /\ pc = "mainloop"
    /\ log = Log("Read done", <<>>)
    /\ DRAW_CUBE_FACES
    /\ \E king, other \in DrawnLabels(DRAW_EXTRA) \cap DOMAIN State :
           /\ Height(State[king]) = 1 /\ State[king][1][1] = "KING"
           /\ RectanglesAt(canvas, king) # {} /\ FacesAt(canvas, king) = {}
           /\ Height(State[other]) >= 1 /\ FacesAt(canvas, other) # {}

(***************************************************************************)
(* C19: the codes of the notation and the decode table.                    *)
(***************************************************************************)
\* the cells a file names three times or more
Crowded(file) ==
    {label \in Labels :
        Cardinality({o \in Occurrences(file) : PositionOf(file, o) = label}) >= 3}

\* C19: every code the item pattern accepts is a key of CUBE_COLORED_TYPES,
\* so no load raises the KeyError of an unknown code; a load of a file that
\* was found fails only when the file holds a malformed token, names an
\* unknown position or names a cell three times
C19_EveryAcceptedCodeDecodes ==
    /\ \A token \in ValidTokens :
           match_item(token) => token[1] \in DOMAIN CUBE_COLORED_TYPES
    /\ Loaded =>
           \E r \in {read_state_file(State, File(file_stream))} :
               /\ ReadFailed => r.raised # NoException
               /\ ReadDone => r.raised = NoException
               /\ r.raised # NoException =>
                      /\ r.raised.type # "KeyError"
                      /\ \/ Malformed(file_stream) # {}
                         \/ Unknown(file_stream) # {}
                         \/ Crowded(file_stream) # {}

\* a file with an upper case and a lower case code has been loaded, and both
\* pieces are on the board
C19_Witness ==
    /\ Loaded
    /\ ReadDone
    /\ \E upper, lower \in Occurrences(file_stream) :
           /\ FragmentText(file_stream, upper)[1] = "W"
           /\ FragmentText(file_stream, lower)[1] = "w"
           /\ \E label \in Labels :
                  /\ State[label][1] = CUBE_COLORED_TYPES["w"]
                  /\ State[label][2] = CUBE_COLORED_TYPES["W"]

(***************************************************************************)
(* C20.  The claim: after any sequence of startup, loads and toggles the   *)
(* canvas holds the rendering of the current STATE under the current       *)
(* DRAW_CUBE_FACES and DRAW_EXTRA.  Every draw_state starts from an empty  *)
(* canvas, so the claim holds after each step that redraws.  The code does *)
(* not keep it over a load that fails: read_state_file has reset STATE     *)
(* (and pushed the pieces read before the failing one) when it raises, and *)
(* read_file then skips draw_state, so the canvas keeps the picture of the *)
(* STATE from before the load.                                             *)
(***************************************************************************)
Rendering == draw_state(State, DRAW_CUBE_FACES, DRAW_EXTRA).canvas

C20_CanvasShowsCurrentState == pc = "mainloop" => canvas = Rendering

(***************************************************************************)
(* C21.  The claim: when write_file exports the canvas, the export is      *)
(* named after the notation file whose position the canvas shows, the      *)
(* file of the last load that succeeded; a failed load or a cancelled      *)
(* dialog does not change that name.  The code does not do this:           *)
(* read_selected_file assigns JERSI_STATE_FILE before read_file runs, so   *)
(* a load that fails has already changed the name write_file exports       *)
(* under, while the canvas keeps the picture it had.                       *)
(***************************************************************************)
\* the canvas holds the picture of the board S under the current options
Shows_board(S) == canvas = draw_state(S, DRAW_CUBE_FACES, DRAW_EXTRA).canvas

\* the canvas holds the picture of a board that a successful load of a file
\* of the dialog leaves
ShowsLoadedFile ==
    \E lines \in SpecFiles :
        \E r \in {read_state_file(State, File(lines))} :
            r.raised = NoException /\ Shows_board(r.State)

\* the canvas holds the picture of the board init_state leaves, the position
\* the program starts with under the name of DefaultStateFile
ShowsInitialPosition == Shows_board(init_state(<<>>).State)

C21_ExportNamedAfterShownFile ==
    (log = Log("Write done", <<>>) /\ exported # NoPath) =>
        \/ /\ exported.radix = DefaultStateFile.radix
           /\ ShowsInitialPosition
        \/ /\ \E path \in SelectablePaths : exported.radix = path.radix
           /\ ShowsLoadedFile

(***************************************************************************)
(* C22: the layout the table registers.                                    *)
(***************************************************************************)
\* the labels of one letter and those of a letter and a digit
BareLabels == RowLetters

TwoCharacterLabels == {row \o column : row \in RowLetters, column \in ColumnDigits}

ReserveNames == {"a", "b", "c", "g", "h", "i"}

\* no two cells of a registry have the same position_uv
DistinctCoordinates(alls) ==
    \A i, j \in 1..Len(alls) : i # j => alls[i].position_uv # alls[j].position_uv

\* a cell has an extra_shift exactly when it is a reserve cell, and it is a
\* reserve cell exactly when its label is one of the six bare letters
WellFormedCell(h) ==
    /\ (h.extra_shift # None) <=> h.is_extra
    /\ h.is_extra <=> h.label \in ReserveNames
    /\ h.label \in TwoCharacterLabels => ~h.is_extra
    /\ h.label \in BareLabels \cup TwoCharacterLabels

\* the registry of the whole table
LayoutIsSound ==
    /\ Len(Hexagon_alls) = Len(HexagonTable)
    /\ DistinctCoordinates(Hexagon_alls)
    /\ \A h \in Cells(Hexagon_alls) : WellFormedCell(h)
    /\ {h.label : h \in {c \in Cells(Hexagon_alls) : c.is_extra}} = ReserveNames
    /\ {h.label : h \in {c \in Cells(Hexagon_alls) : c.extra_shift # None}} = ReserveNames
    /\ Labels \cap BareLabels = ReserveNames

\* the call is the one the import makes next on the registry
IsNextTableCall(alls, call) ==
    /\ Len(alls) < Len(HexagonTable)
    /\ alls = SubSeq(Hexagon_alls, 1, Len(alls))
    /\ call = HexagonTable[Len(alls) + 1]

\* C22: in the layout the table registers no two cells have the same
\* position_uv, a cell has an extra_shift if and only if it is a reserve cell,
\* and the reserve cells are exactly a, b, c, g, h, i (every label of two
\* characters is a regular cell); each Hexagon.add of the import keeps this:
\* it is accepted and the cell it registers has a coordinate that no cell
\* registered before it has
C22_LayoutIsSound ==
    /\ LayoutIsSound
    /\ (output.raised # Pending /\ IsNextTableCall(input.alls, input.call)) =>
           /\ output.raised = NoException
           /\ output.alls = SubSeq(Hexagon_alls, 1, Len(input.alls) + 1)
           /\ WellFormedCell(output.alls[Len(output.alls)])
           /\ \A i \in 1..Len(input.alls) :
                  input.alls[i].position_uv # output.alls[Len(output.alls)].position_uv

\* the last call of the table has been made: the registry holds the whole
\* layout with its six reserve cells
C22_Witness ==
    /\ output.raised = NoException
    /\ IsNextTableCall(input.alls, input.call)
    /\ output.alls = Hexagon_alls
    /\ Cardinality({h \in Cells(output.alls) : h.is_extra}) = 6

====
